---- MODULE Spec2Model ----
(***************************************************************************)
(* Model of hannds' data pipeline (src/import_data.py):                    *)
(*   convert(path, ms_window, overwrite)  MIDI files -> pianoroll .npy     *)
(*   Dataset(path, n_windows_past)        loads, concatenates and pads     *)
(*   Dataset.next_batch(n_samples)        random windows and their labels  *)
(*                                                                         *)
(* Times are integers in milliseconds, so note.start * samples_per_sec is  *)
(* start_ms / ms_window exactly (the rounding of the float product is not  *)
(* modelled).  A tensor of shape (n, 2, 88) is a sequence of n windows,    *)
(* each window a pair <<hand 0, hand 1>> of sets of pitch offsets: offset  *)
(* p is in the set iff the cell [w, h, p] is True.                         *)
(***************************************************************************)
EXTENDS Integers, Sequences, FiniteSets, TLC

VARIABLES source, artifact, call, npy, dataset, caller

vars == <<source, artifact, call, npy, dataset, caller>>

encoderVars == <<source, artifact, call>>

samplerVars == <<npy, dataset, caller>>

\* ------------------------------------------------------------------ bounds

\* most notes in one MIDI file of the encoder's inputs
MaxNotes == 2

\* most windows in the .npy files a Dataset loads, all files together
MaxWindows == 2

\* largest n_windows_past a Dataset is built with
MaxPast == 2

\* ------------------------------------------------------ program constants

\* the third axis of np.zeros((n_windows, 2, 88))
N_KEYS == 88

\* the second axis of np.zeros((n_windows, 2, 88))
N_HANDS == 2

\* note.pitch - 21
LOWEST_PITCH == 21

Hands == 0 .. (N_HANDS - 1)

Keys == 0 .. (N_KEYS - 1)

\* ------------------------------------------------------------ input sets

\* the MIDI files of the directory `path`
MidiFiles == {"a.mid", "b.mid"}

\* a path is one MIDI file, or the directory holding them all
Dir == "data"

Paths == MidiFiles \cup {Dir}

MsWindows == {20, 50}

\* note times of the inputs, in ms
TimeInputs == {0, 30, 50}

\* MIDI note numbers of the inputs: below, inside and above the piano's 21..108
PitchInputs == {20, 60, 109}

\* pretty_midi.Note of instrument `hand`: a note of positive length at any
\* of the pitches, or a note of any times at a pitch of the piano
NoteInputs ==
    {n \in [hand : Hands, start : TimeInputs, end : TimeInputs,
            pitch : PitchInputs] :
        n.start < n.end \/ (n.pitch - LOWEST_PITCH) \in Keys}

RECURSIVE SetsUpTo(_, _)
SetsUpTo(U, k) ==
    IF k = 0 THEN {{}}
    ELSE LET S == SetsUpTo(U, k - 1)
         IN  S \cup {s \cup {x} : s \in S, x \in U}

\* a parsed MIDI file: the notes of instruments[0] and instruments[1]
MidiInputs == SetsUpTo(NoteInputs, MaxNotes)

\* ------------------------------------------------------------- tensors

EmptyWindow == <<{}, {}>>

\* np.zeros((n, 2, 88))
Zeros(n) == [w \in 1 .. n |-> EmptyWindow]

\* hands[w, h, p], 0-based
Cell(t, w, h, p) == p \in t[w + 1][h + 1]

Min(a, b) == IF a < b THEN a ELSE b

Max(a, b) == IF a > b THEN a ELSE b

\* math.floor(ms / ms_window) for ms >= 0
Floor(ms, ms_window) == ms \div ms_window

\* math.ceil(ms / ms_window) for ms >= 0
Ceil(ms, ms_window) == (ms + ms_window - 1) \div ms_window

\* an integer index i into an axis of `size` entries: Python counts a
\* negative index from the end and raises IndexError outside -size..size-1
IndexInBounds(i, size) == -size <= i /\ i < size

NormIndex(i, size) == IF i < 0 THEN i + size ELSE i

\* the bounds of the slice a:b (a, b >= 0) of an axis of n entries
ClipIndex(i, n) == Min(i, n)

\* ---------------------------------------------------------------- convert

\* midi.instruments[hand].notes
Notes(midi, hand) == {note \in midi : note.hand = hand}

RECURSIVE MaxEnd(_)
MaxEnd(notes) ==
    IF notes = {} THEN 0
    ELSE LET n == CHOOSE x \in notes : TRUE
         IN  Max(n.end, MaxEnd(notes \ {n}))

\* midi.get_end_time(), in ms
GetEndTime(midi) == MaxEnd(midi)

NWindows(midi, ms_window) == Ceil(GetEndTime(midi), ms_window)

NoteStart(note, ms_window) == Floor(note.start, ms_window)

\* mutant of NoteEnd: the end index rounded down
NoteEndFloor(note, ms_window) == Floor(note.end, ms_window)

NoteEnd(note, ms_window) == Ceil(note.end, ms_window)

\* hands[start:end, hand, note.pitch - 21] = True
SetNote(hands, note, ms_window) ==
    LET n     == Len(hands)
        lo    == ClipIndex(NoteStart(note, ms_window), n)
        hi    == ClipIndex(NoteEnd(note, ms_window), n)
        p     == NormIndex(note.pitch - LOWEST_PITCH, N_KEYS)
    IN  [w \in 1 .. n |->
            IF lo <= w - 1 /\ w - 1 < hi
            THEN [hands[w] EXCEPT ![note.hand + 1] = @ \cup {p}]
            ELSE hands[w]]

RECURSIVE FillNotes(_, _, _)
FillNotes(hands, notes, ms_window) ==
    IF notes = {} THEN hands
    ELSE LET n == CHOOSE x \in notes : TRUE
         IN  FillNotes(SetNote(hands, n, ms_window), notes \ {n}, ms_window)

\* lines 37-52 for one file: the filled array, or the IndexError of the
\* first note whose pitch - 21 is no index of the pitch axis
Encode(midi, ms_window) ==
    IF \E note \in midi : ~IndexInBounds(note.pitch - LOWEST_PITCH, N_KEYS)
    THEN [err |-> "IndexError", hands |-> <<>>]
    ELSE [err |-> "none",
          hands |-> FillNotes(FillNotes(Zeros(NWindows(midi, ms_window)),
                                        Notes(midi, 0), ms_window),
                              Notes(midi, 1), ms_window)]

NoFile == [exists |-> FALSE, hands |-> <<>>]

Saved(hands) == [exists |-> TRUE, hands |-> hands]

\* midi_file + '_' + str(ms_window) + 'ms' + '.npy'
NpyFile(midi_file, ms_window) ==
    midi_file \o "_" \o ToString(ms_window) \o "ms" \o ".npy"

\* the .npy files convert can write
NpyFiles == {NpyFile(f, ms_window) : f \in MidiFiles, ms_window \in MsWindows}

\* mutant of ShouldEncode: the existing artifact is never looked at
ShouldEncodeAlways(art, npy_file, overwrite) == TRUE

\* if overwrite or not os.path.exists(npy_file)
ShouldEncode(art, npy_file, overwrite) == overwrite \/ ~art[npy_file].exists

\* the loop of convert over midi_files[i..], from the artifacts `art`:
\* the artifacts it leaves, the files it saved, and the exception that ended it
RECURSIVE ConvertLoop(_, _, _, _, _, _)
ConvertLoop(files, i, ms_window, overwrite, art, written) ==
    IF i > Len(files) THEN [artifact |-> art, written |-> written, err |-> "none"]
    ELSE LET f == files[i]
             k == NpyFile(f, ms_window)
         IN  IF ShouldEncode(art, k, overwrite)
             THEN LET r == Encode(source[f], ms_window)
                  IN  IF r.err # "none"
                      THEN [artifact |-> art, written |-> written, err |-> r.err]
                      ELSE ConvertLoop(files, i + 1, ms_window, overwrite,
                                       [art EXCEPT ![k] = Saved(r.hands)],
                                       written \cup {f})
             ELSE ConvertLoop(files, i + 1, ms_window, overwrite, art, written)

\* glob.glob returns the directory's files in an order the file system picks
FileOrders == {<<"a.mid", "b.mid">>, <<"b.mid", "a.mid">>}

GetFilesFromPath(path) ==
    IF path \in MidiFiles THEN {<<path>>} ELSE FileOrders

NoCall ==
    [op |-> "none", path |-> Dir, ms_window |-> 0, overwrite |-> FALSE,
     files |-> <<>>, written |-> {}, err |-> "none"]

Convert(path, ms_window, overwrite) ==
    \E files \in GetFilesFromPath(path) :
        LET r == ConvertLoop(files, 1, ms_window, overwrite, artifact, {})
        IN  /\ artifact' = r.artifact
            /\ call' = [op |-> "convert", path |-> path, ms_window |-> ms_window,
                        overwrite |-> overwrite, files |-> files,
                        written |-> r.written, err |-> r.err]
            /\ UNCHANGED <<source, samplerVars>>

\* the MIDI file f is replaced on disk, outside the program
ChangeSource(f, midi) ==
    /\ source[f] # midi
    /\ source' = [source EXCEPT ![f] = midi]
    /\ call' = NoCall
    /\ UNCHANGED <<artifact, samplerVars>>

\* ---------------------------------------------------------------- Dataset

\* the threads that call next_batch on the one Dataset
Callers == {1, 2}

\* a window of a stored tensor: no key down, key 39 down in hand 0, in
\* both hands, and hand 0 on key 39 while hand 1 is on key 87
WindowInputs ==
    {<<{}, {}>>, <<{39}, {}>>, <<{39}, {39}>>, <<{39}, {87}>>}

\* the n_samples of the next_batch calls
SampleCounts == 1 .. 2

TensorInputs == UNION {[1 .. n -> WindowInputs] : n \in 0 .. MaxWindows}

RECURSIVE TotalLen(_)
TotalLen(tensors) ==
    IF tensors = <<>> THEN 0
    ELSE Len(Head(tensors)) + TotalLen(Tail(tensors))

\* the .npy files get_files_from_path finds, in its order: none, one or two
NpyInputs ==
    {<<>>}
    \cup {<<t>> : t \in TensorInputs}
    \cup {ts \in {<<t, u>> : t \in TensorInputs, u \in TensorInputs} :
              TotalLen(ts) <= MaxWindows}

RECURSIVE Concatenate(_)
\* np.concatenate(tensors, axis=0)
Concatenate(tensors) ==
    IF tensors = <<>> THEN <<>>
    ELSE Head(tensors) \o Concatenate(Tail(tensors))

\* mutant of PaddedData: zeros in front of the loaded windows only
PaddedDataHeadOnly(tensors, n_windows_past) ==
    Zeros(n_windows_past) \o Concatenate(tensors)

\* lines 64-68
PaddedData(tensors, n_windows_past) ==
    Concatenate(<<Zeros(n_windows_past),
                  Concatenate(tensors),
                  Zeros(n_windows_past)>>)

NoDataset == [built |-> FALSE, err |-> "none", data |-> <<>>, n_windows_past |-> 0]

Idle ==
    [pc |-> "idle", n_samples |-> 0, sample |-> 0, starts |-> <<>>,
     hands |-> <<>>, batch_x |-> <<>>, batch_y |-> <<>>]

SamplerIdle ==
    /\ npy = <<>>
    /\ dataset = NoDataset
    /\ caller = [c \in Callers |-> Idle]

\* Dataset.__init__
Construct(n_windows_past) ==
    /\ ~dataset.built
    /\ dataset.err = "none"
    /\ dataset' =
           IF npy = <<>>
           THEN [NoDataset EXCEPT !.err = "FileNotFoundError"]
           ELSE [built |-> TRUE, err |-> "none",
                 data |-> PaddedData(npy, n_windows_past),
                 n_windows_past |-> n_windows_past]
    /\ UNCHANGED <<npy, caller, encoderVars>>

\* data[a:b] for 0 <= a <= b
Slice(data, a, b) ==
    LET lo == ClipIndex(a, Len(data))
        hi == ClipIndex(b, Len(data))
    IN  [i \in 1 .. (hi - lo) |-> data[lo + i]]

\* mutant of StartRange: random.randrange(self.data.shape[0])
StartRangeWhole(data, n_windows_past) == 0 .. (Len(data) - 1)

\* mutant of StartRange: the tail padding kept out of the label window too
StartRangeInterior(data, n_windows_past) ==
    0 .. (Len(data) - 2 * n_windows_past - 1)

\* the values of random.randrange(self.data.shape[0] - self.n_windows_past)
StartRange(data, n_windows_past) == 0 .. (Len(data) - n_windows_past - 1)

\* hands[sample, :, :, :] = value: a value of one window is broadcast, one of
\* another length than the sample's is a ValueError
AssignSample(n_windows, value) ==
    IF Len(value) = n_windows THEN [err |-> "none", value |-> value]
    ELSE IF Len(value) = 1
         THEN [err |-> "none", value |-> [i \in 1 .. n_windows |-> value[1]]]
         ELSE [err |-> "ValueError", value |-> <<>>]

\* lines 72-77: the call's own array of zeros
Begin(c, n_samples) ==
    /\ dataset.built
    /\ caller[c].pc # "draw"
    /\ caller' = [caller EXCEPT ![c] =
           [Idle EXCEPT !.pc = "draw",
                        !.n_samples = n_samples,
                        !.hands = [s \in 1 .. n_samples |->
                                       Zeros(dataset.n_windows_past + 1)]]]
    /\ UNCHANGED <<npy, dataset, encoderVars>>

\* mutant of WriteSample: one array shared by all callers
WriteSampleShared(callers, c, sample, value) ==
    [d \in Callers |->
        IF d = c \/ (callers[d].pc = "draw" /\ sample < callers[d].n_samples)
        THEN [callers[d] EXCEPT !.hands[sample + 1] = value]
        ELSE callers[d]]

\* hands[sample, :, :, :] = value, on caller c's array
WriteSample(callers, c, sample, value) ==
    [callers EXCEPT ![c].hands[sample + 1] = value]

\* lines 79-83, one turn of the loop
Draw(c) ==
    LET me == caller[c]
        P  == dataset.n_windows_past
    IN  /\ me.pc = "draw"
        /\ me.sample < me.n_samples
        /\ IF StartRange(dataset.data, P) = {}
           THEN caller' = [caller EXCEPT ![c].pc = "error"]
           ELSE \E start \in StartRange(dataset.data, P) :
                    LET r == AssignSample(P + 1,
                                 Slice(dataset.data, start, start + P + 1))
                    IN  IF r.err # "none"
                        THEN caller' = [caller EXCEPT ![c].pc = "error"]
                        ELSE caller' =
                                 [WriteSample(caller, c, me.sample, r.value)
                                      EXCEPT ![c].sample = me.sample + 1,
                                             ![c].starts = Append(me.starts, start)]
        /\ UNCHANGED <<npy, dataset, encoderVars>>

NAN == "nan"

LEFT == "-1"

RIGHT == "+1"

BOTH == "0"

Labels == {NAN, LEFT, RIGHT, BOTH}

\* batch_y of one sample is the sets of keys labelled -1, +1 and 0; every
\* other key holds NaN
AllNan == [left |-> {}, right |-> {}, both |-> {}]

\* batch_y[sample, p]
Label(y, p) ==
    IF p \in y.left THEN LEFT
    ELSE IF p \in y.right THEN RIGHT
    ELSE IF p \in y.both THEN BOTH
    ELSE NAN

\* batch_y[mask] = value, for one sample
MaskedAssign(y, mask, value) ==
    [left  |-> IF value = LEFT THEN y.left \cup mask ELSE y.left \ mask,
     right |-> IF value = RIGHT THEN y.right \cup mask ELSE y.right \ mask,
     both  |-> IF value = BOTH THEN y.both \cup mask ELSE y.both \ mask]

\* np.logical_or(hands[:, :, 0, :], hands[:, :, 1, :]) for one sample
BatchX(sample) == [w \in 1 .. Len(sample) |-> sample[w][1] \cup sample[w][2]]

\* np.logical_and(hands[:, :, 0, :], hands[:, :, 1, :]) for one sample
BothHands(sample) == [w \in 1 .. Len(sample) |-> sample[w][1] \cap sample[w][2]]

\* mutant of BatchY: the both-hands mask assigned first
BatchYBothFirst(sample) ==
    LET last == Len(sample)
        y1   == MaskedAssign(AllNan, BothHands(sample)[last], BOTH)
        y2   == MaskedAssign(y1, sample[last][1], LEFT)
    IN  MaskedAssign(y2, sample[last][2], RIGHT)

\* mutant of BatchY: the masks taken over every window of the sample
BatchYAnyWindow(sample) ==
    LET any(h) == UNION {sample[w][h] : w \in 1 .. Len(sample)}
        y1     == MaskedAssign(AllNan, any(1), LEFT)
        y2     == MaskedAssign(y1, any(2), RIGHT)
    IN  MaskedAssign(y2, any(1) \cap any(2), BOTH)

\* lines 102-105 for one sample
BatchY(sample) ==
    LET last == Len(sample)
        y1   == MaskedAssign(AllNan, sample[last][1], LEFT)
        y2   == MaskedAssign(y1, sample[last][2], RIGHT)
    IN  MaskedAssign(y2, BothHands(sample)[last], BOTH)

\* lines 85-107
Finish(c) ==
    LET me == caller[c]
    IN  /\ me.pc = "draw"
        /\ me.sample = me.n_samples
        /\ caller' = [caller EXCEPT ![c] =
               [me EXCEPT !.pc = "done",
                          !.batch_x = [s \in 1 .. me.n_samples |-> BatchX(me.hands[s])],
                          !.batch_y = [s \in 1 .. me.n_samples |-> BatchY(me.hands[s])]]]
        /\ UNCHANGED <<npy, dataset, encoderVars>>

EncoderIdle ==
    /\ source = [f \in MidiFiles |-> {}]
    /\ artifact = [k \in NpyFiles |-> NoFile]
    /\ call = NoCall

\* one caller of next_batch, every stored input
InitSampler ==
    /\ npy \in NpyInputs
    /\ dataset = NoDataset
    /\ caller = [c \in Callers |-> Idle]
    /\ EncoderIdle

NextSampler ==
    \/ \E n_windows_past \in 0 .. MaxPast : Construct(n_windows_past)
    \/ \E n_samples \in SampleCounts : Begin(1, n_samples)
    \/ Draw(1)
    \/ Finish(1)

SpecSampler == InitSampler /\ [][NextSampler]_vars

\* two callers of next_batch on one Dataset, their steps interleaved
ConcurrentNpyInputs ==
    { << << <<{39}, {}>>, <<{39}, {39}>> >> >>,
      << << <<{}, {39}>> >>, << <<{39}, {87}>> >> >> }

InitConcurrent ==
    /\ npy \in ConcurrentNpyInputs
    /\ dataset = NoDataset
    /\ caller = [c \in Callers |-> Idle]
    /\ EncoderIdle

NextConcurrent ==
    \/ \E n_windows_past \in 0 .. MaxPast : Construct(n_windows_past)
    \/ \E c \in Callers :
           \/ \E n_samples \in SampleCounts : Begin(c, n_samples)
           \/ Draw(c)
           \/ Finish(c)

SpecConcurrent == InitConcurrent /\ [][NextConcurrent]_vars

\* the encoder on one file: a.mid holds any of the inputs, b.mid is empty
InitEncode ==
    /\ source \in {s \in [MidiFiles -> MidiInputs] : s["b.mid"] = {}}
    /\ artifact = [k \in NpyFiles |-> NoFile]
    /\ call = NoCall
    /\ SamplerIdle

NextEncode ==
    \E ms_window \in MsWindows, overwrite \in BOOLEAN :
        Convert("a.mid", ms_window, overwrite)

SpecEncode == InitEncode /\ [][NextEncode]_vars

\* ------------------------------------------------- the artifact cache

\* the MIDI files the cache is exercised with: two different valid files,
\* and one whose note lies above the piano's range
CacheMidiInputs ==
    { {[hand |-> 0, start |-> 0, end |-> 30, pitch |-> 60]},
      {[hand |-> 1, start |-> 30, end |-> 50, pitch |-> 60]},
      {[hand |-> 0, start |-> 0, end |-> 50, pitch |-> 109]} }

InitCache ==
    /\ source \in [MidiFiles -> CacheMidiInputs]
    /\ artifact = [k \in NpyFiles |-> NoFile]
    /\ call = NoCall
    /\ SamplerIdle

NextCache ==
    \/ \E f \in MidiFiles, midi \in CacheMidiInputs : ChangeSource(f, midi)
    \/ \E path \in Paths, ms_window \in MsWindows, overwrite \in BOOLEAN :
           Convert(path, ms_window, overwrite)

SpecCache == InitCache /\ [][NextCache]_vars

\* ------------------------------------------- properties of the encoder

InPianoRange(pitch) == LOWEST_PITCH <= pitch /\ pitch <= LOWEST_PITCH + N_KEYS - 1

ValidNote(note) ==
    /\ 0 <= note.start
    /\ note.start < note.end
    /\ InPianoRange(note.pitch)

ValidMidi(midi) == \A note \in midi : ValidNote(note)

\* n = ceil(end_ms / ms_window), stated without the rounding operators
IsCeilOf(n, end_ms, ms_window) ==
    /\ n >= 0
    /\ n * ms_window >= end_ms
    /\ (n - 1) * ms_window < end_ms

\* floor(start / ms_window) <= w < ceil(end / ms_window), stated without them
Covers(note, w, ms_window) ==
    /\ note.start < (w + 1) * ms_window
    /\ w * ms_window < note.end

\* the last end time of the notes of the two hands
IsTrackEnd(midi, e) ==
    /\ \A note \in midi : note.end <= e
    /\ (midi = {} /\ e = 0) \/ (\E note \in midi : note.end = e)

TheArtifact(f) == artifact[NpyFile(f, call.ms_window)]

\* C1: for every valid two-hand input and positive window size, the tensor
\* convert writes has ceil(track_end_time * rate) windows, and its cell
\* [w, h, p] is true iff hand h has a note with pitch - 21 = p and
\* floor(start * rate) <= w < ceil(end * rate); notes that overlap on a hand
\* and pitch only OR together and every other cell is false.
C1_EncodedCells ==
    call.op = "convert" =>
        \A f \in call.written :
            ValidMidi(source[f]) =>
                LET t == TheArtifact(f).hands
                    ms == call.ms_window
                IN  /\ TheArtifact(f).exists
                    /\ \E e \in TimeInputs :
                           /\ IsTrackEnd(source[f], e)
                           /\ IsCeilOf(Len(t), e, ms)
                    /\ \A w \in 0 .. (Len(t) - 1), h \in Hands :
                           /\ t[w + 1][h + 1] \subseteq Keys
                           /\ \A p \in Keys :
                                  Cell(t, w, h, p) <=>
                                      \E note \in source[f] :
                                          /\ note.hand = h
                                          /\ note.pitch - LOWEST_PITCH = p
                                          /\ Covers(note, w, ms)

\* two different notes of one hand and pitch share a window of a written
\* tensor, whose cell is true for that hand and false for the other
C1_Witness ==
    /\ call.op = "convert"
    /\ \E f \in call.written :
           /\ ValidMidi(source[f])
           /\ \E n1 \in source[f], n2 \in source[f] :
                  /\ n1 # n2
                  /\ n1.hand = n2.hand
                  /\ n1.pitch = n2.pitch
                  /\ \E w \in 0 .. (Len(TheArtifact(f).hands) - 1) :
                         /\ Covers(n1, w, call.ms_window)
                         /\ Covers(n2, w, call.ms_window)
                         /\ Cell(TheArtifact(f).hands, w, n1.hand,
                                 n1.pitch - LOWEST_PITCH)
                         /\ ~Cell(TheArtifact(f).hands, w, 1 - n1.hand,
                                  n1.pitch - LOWEST_PITCH)

\* C5: encoding a track with a note whose pitch is outside 21..108 ends in
\* an error; the note is never mapped to another pitch offset and no tensor
\* with a cell set by that note is saved.
C5_OutOfRangePitchRaises ==
    call.op = "convert" =>
        \A f \in call.written :
            \A note \in source[f] : InPianoRange(note.pitch)

\* C6: encoding a track with a note with end <= start raises an error for
\* that file; no tensor is saved for it, and the note is neither dropped nor
\* encoded as an empty interval.
C6_InvertedNoteRaises ==
    call.op = "convert" =>
        \A f \in call.written :
            \A note \in source[f] : note.start < note.end

\* --------------------------------------------- properties of the cache

ConvertStep ==
    /\ call'.op = "convert"
    /\ source' = source

CallFiles == {call'.files[i] : i \in 1 .. Len(call'.files)}

InCall(f, ms_window) == f \in CallFiles /\ ms_window = call'.ms_window

EncodingOf(f, ms_window) == Saved(Encode(source[f], ms_window).hands)

Encodable(f, ms_window) == Encode(source[f], ms_window).err = "none"

Before(f, ms_window) == artifact[NpyFile(f, ms_window)]

After(f, ms_window) == artifact'[NpyFile(f, ms_window)]

\* what C7 says of the artifact of (f, ms_window) when the call's loop reaches it
CachePolicy(f, ms_window) ==
    /\ (~call'.overwrite /\ Before(f, ms_window).exists) =>
           After(f, ms_window) = Before(f, ms_window)
    /\ (call'.overwrite \/ ~Before(f, ms_window).exists) =>
           /\ Encodable(f, ms_window)
           /\ After(f, ms_window) = EncodingOf(f, ms_window)

\* C7 (as stated): the artifact is keyed by (source file, ms_window); a
\* convert call with overwrite = false leaves an existing artifact unchanged
\* and creates a missing one, a call with overwrite = true leaves the
\* artifact equal to the encoding of the current source, and no call changes
\* an artifact of another source file or another ms_window.
C7_Original ==
    [][ConvertStep =>
          \A f \in MidiFiles, ms_window \in MsWindows :
              /\ ~InCall(f, ms_window) =>
                     After(f, ms_window) = Before(f, ms_window)
              /\ (InCall(f, ms_window) /\ Encodable(f, ms_window)) =>
                     CachePolicy(f, ms_window)]_vars

\* C7 (amended): the above for every convert call that returns without
\* raising; a call that raises leaves every artifact unchanged or equal to
\* the encoding of its current source, an existing artifact unchanged when
\* overwrite = false, and the artifacts of other files and window sizes
\* unchanged.
C7_CachePolicy ==
    [][ConvertStep =>
          \A f \in MidiFiles, ms_window \in MsWindows :
              /\ ~InCall(f, ms_window) =>
                     After(f, ms_window) = Before(f, ms_window)
              /\ (InCall(f, ms_window) /\ call'.err = "none") =>
                     CachePolicy(f, ms_window)
              /\ (InCall(f, ms_window) /\ call'.err # "none") =>
                     /\ After(f, ms_window) = Before(f, ms_window)
                        \/ /\ Encodable(f, ms_window)
                           /\ After(f, ms_window) = EncodingOf(f, ms_window)
                     /\ (~call'.overwrite /\ Before(f, ms_window).exists) =>
                            After(f, ms_window) = Before(f, ms_window)]_vars

\* a call with overwrite = false has kept an artifact that is no longer the
\* encoding of its source, and created a missing one beside it
C7_Witness ==
    /\ call.op = "convert"
    /\ call.err = "none"
    /\ ~call.overwrite
    /\ \E f \in MidiFiles :
           /\ \E i \in 1 .. Len(call.files) : call.files[i] = f
           /\ f \notin call.written
           /\ TheArtifact(f).exists
           /\ TheArtifact(f) # Saved(Encode(source[f], call.ms_window).hands)
    /\ call.written # {}

\* ------------------------------------------- properties of the sampler

Done(c) == caller[c].pc = "done"

\* the samples caller c has drawn so far
Drawn(c) == 1 .. Len(caller[c].starts)

\* window w (0-based) of the slice of sample s of caller c, in the Dataset
SliceWindow(c, s, w) == dataset.data[caller[c].starts[s] + w + 1]

Active(window, h, p) == p \in window[h + 1]

\* C2: in every batch next_batch returns, a pitch on which hand 0 and hand 1
\* are both active in a window of the sampled slice is true in the merged
\* input at that window, and when the window is the slice's last one the
\* label of the pitch is exactly 0, never -1, +1 or NaN.
C2_OverlapLabel ==
    \A c \in Callers :
        Done(c) =>
            \A s \in 1 .. caller[c].n_samples, w \in 0 .. dataset.n_windows_past,
               p \in Keys :
                (Active(SliceWindow(c, s, w), 0, p)
                     /\ Active(SliceWindow(c, s, w), 1, p)) =>
                    /\ p \in caller[c].batch_x[s][w + 1]
                    /\ w = dataset.n_windows_past => Label(caller[c].batch_y[s], p) = BOTH

\* a returned sample whose last window has both hands on one pitch
C2_Witness ==
    \E c \in Callers :
        /\ Done(c)
        /\ \E s \in 1 .. caller[c].n_samples, p \in Keys :
               /\ Active(SliceWindow(c, s, dataset.n_windows_past), 0, p)
               /\ Active(SliceWindow(c, s, dataset.n_windows_past), 1, p)
               /\ Label(caller[c].batch_y[s], p) = BOTH

\* C3: the label of a pitch depends on the last window of the sample's slice
\* only: -1 iff hand 0 alone is active there, +1 iff hand 1 alone is, NaN iff
\* neither is; earlier windows of the slice never change it.
C3_LabelFromLastWindow ==
    \A c \in Callers :
        Done(c) =>
            \A s \in 1 .. caller[c].n_samples, p \in Keys :
                LET last == SliceWindow(c, s, dataset.n_windows_past)
                    y    == Label(caller[c].batch_y[s], p)
                IN  /\ y \in Labels
                    /\ y = LEFT <=> (Active(last, 0, p) /\ ~Active(last, 1, p))
                    /\ y = RIGHT <=> (~Active(last, 0, p) /\ Active(last, 1, p))
                    /\ y = NAN <=> (~Active(last, 0, p) /\ ~Active(last, 1, p))

\* a returned sample labelled -1 on a pitch both hands play in an earlier
\* window of the slice, and NaN on a pitch a hand plays in an earlier window
C3_Witness ==
    \E c \in Callers :
        /\ Done(c)
        /\ dataset.n_windows_past >= 1
        /\ \E s \in 1 .. caller[c].n_samples, t \in 1 .. caller[c].n_samples,
              p \in Keys :
               /\ Label(caller[c].batch_y[s], p) = LEFT
               /\ Active(SliceWindow(c, s, 0), 1, p)
               /\ Label(caller[c].batch_y[t], p) = NAN
               /\ Active(SliceWindow(c, t, 0), 0, p)

\* C4: with L padded windows and n_windows_past = P, L > P, the start indices
\* next_batch can draw are exactly the L - P values 0..L-P-1, every window
\* read, start..start+P, lies inside 0..L-1, and every returned input sample
\* has exactly P+1 windows, for each of the n_samples draws of every call.
C4_StartRange ==
    LET L == Len(dataset.data)
        P == dataset.n_windows_past
    IN  (dataset.built /\ L > P) =>
            /\ StartRange(dataset.data, P) = 0 .. (L - P - 1)
            /\ Cardinality(StartRange(dataset.data, P)) = L - P
            /\ \A c \in Callers :
                   /\ caller[c].pc # "error"
                   /\ \A s \in Drawn(c) :
                          /\ 0 <= caller[c].starts[s]
                          /\ caller[c].starts[s] + P <= L - 1
                          /\ Len(caller[c].hands[s]) = P + 1
                   /\ Done(c) =>
                          /\ Len(caller[c].starts) = caller[c].n_samples
                          /\ Len(caller[c].batch_x) = caller[c].n_samples
                          /\ \A s \in 1 .. caller[c].n_samples :
                                 Len(caller[c].batch_x[s]) = P + 1

\* a returned batch of two samples, one drawn at the first and one at the
\* last start index, with past windows
C4_Witness ==
    \E c \in Callers :
        /\ Done(c)
        /\ dataset.n_windows_past >= 1
        /\ caller[c].n_samples >= 2
        /\ \E s \in Drawn(c) : caller[c].starts[s] = 0
        /\ \E s \in Drawn(c) :
               caller[c].starts[s] = Len(dataset.data) - dataset.n_windows_past - 1

\* the first window (1-based, in data) of the i-th loaded tensor
FileOffset(i) == dataset.n_windows_past + TotalLen(SubSeq(npy, 1, i - 1))

\* C9: a Dataset built from tensors of lengths n_1..n_k with n_windows_past
\* = P holds exactly n_1 + ... + n_k + 2P windows, the first P and the last P
\* all false, and in between the loaded tensors in load order, cell by cell.
C9_PaddedDataset ==
    dataset.built =>
        LET P == dataset.n_windows_past
            N == TotalLen(npy)
        IN  /\ Len(dataset.data) = N + 2 * P
            /\ \A w \in 1 .. P : dataset.data[w] = EmptyWindow
            /\ \A w \in (N + P + 1) .. (N + 2 * P) : dataset.data[w] = EmptyWindow
            /\ \A i \in 1 .. Len(npy) :
                   \A j \in 1 .. Len(npy[i]) :
                       dataset.data[FileOffset(i) + j] = npy[i][j]

\* a padded Dataset of two loaded tensors that differ
C9_Witness ==
    /\ dataset.built
    /\ dataset.n_windows_past >= 1
    /\ Len(npy) = 2
    /\ Len(npy[1]) >= 1
    /\ Len(npy[2]) >= 1
    /\ npy[1] # npy[2]
    /\ npy[2][1] # EmptyWindow

\* the window (0-based) sample s of caller c is labelled from
LabelWindow(c, s) == caller[c].starts[s] + dataset.n_windows_past

\* C10: with N real windows and n_windows_past = P, a sample's label window
\* start + P lies in P..N+2P-1: never in the head padding; every real window
\* can be drawn as label window with its P past windows; and when P > 0 each
\* of the P tail-padding windows can be drawn too, and then every label of
\* the sample is NaN.
C10_LabelWindowRange ==
    dataset.built =>
        LET P == dataset.n_windows_past
            N == TotalLen(npy)
        IN  /\ {start + P : start \in StartRange(dataset.data, P)}
                   = P .. (N + 2 * P - 1)
            /\ \A c \in Callers :
                 \A s \in Drawn(c) :
                   /\ P <= LabelWindow(c, s)
                   /\ LabelWindow(c, s) <= N + 2 * P - 1
                   /\ (Done(c) /\ LabelWindow(c, s) >= N + P) =>
                          \A p \in Keys : Label(caller[c].batch_y[s], p) = NAN

\* a returned sample labelled from a tail-padding window, beside one
\* labelled from the last real window, of a Dataset with real notes
C10_Witness ==
    \E c \in Callers :
        /\ Done(c)
        /\ dataset.n_windows_past >= 1
        /\ \E s \in Drawn(c) :
               /\ LabelWindow(c, s) >= TotalLen(npy) + dataset.n_windows_past
               /\ \A p \in Keys : Label(caller[c].batch_y[s], p) = NAN
               /\ \E w \in 0 .. (dataset.n_windows_past - 1) :
                      SliceWindow(c, s, w) # EmptyWindow
        /\ \E s \in Drawn(c) :
               LabelWindow(c, s) = TotalLen(npy) + dataset.n_windows_past - 1

\* the batch of a call from the tensor and the call's draws alone
ExpectedX(c, s, w) ==
    {p \in Keys :
        Active(SliceWindow(c, s, w), 0, p) \/ Active(SliceWindow(c, s, w), 1, p)}

ExpectedY(c, s, p) ==
    LET last == SliceWindow(c, s, dataset.n_windows_past)
    IN  IF Active(last, 0, p) /\ Active(last, 1, p) THEN BOTH
        ELSE IF Active(last, 0, p) THEN LEFT
        ELSE IF Active(last, 1, p) THEN RIGHT
        ELSE NAN

OwnResult(c) ==
    /\ \A s \in Drawn(c), w \in 0 .. dataset.n_windows_past :
           caller[c].hands[s][w + 1] = SliceWindow(c, s, w)
    /\ \A s \in (Len(caller[c].starts) + 1) .. caller[c].n_samples :
           caller[c].pc = "draw" =>
               caller[c].hands[s] = Zeros(dataset.n_windows_past + 1)
    /\ Done(c) =>
           \A s \in 1 .. caller[c].n_samples :
               /\ \A w \in 0 .. dataset.n_windows_past :
                      caller[c].batch_x[s][w + 1] = ExpectedX(c, s, w)
               /\ \A p \in Keys : Label(caller[c].batch_y[s], p) = ExpectedY(c, s, p)

\* C8: once the Dataset is built, no sequence or interleaving of next_batch
\* calls changes its tensor or n_windows_past; a step of one call writes to
\* that call's own arrays only, and the batch of a call is a function of the
\* tensor and its own draws, whatever the other calls did.
C8_ReadOnlyDataset ==
    /\ [][dataset.built => (dataset' = dataset /\ npy' = npy)]_vars
    /\ [][\A c \in Callers, d \in Callers :
              (c # d /\ caller'[c] # caller[c]) => caller'[d] = caller[d]]_vars
    /\ [](\A c \in Callers : OwnResult(c))

\* one caller has returned a batch while the other is between the two draws
\* of its call, from another start index
C8_Witness ==
    /\ Done(1)
    /\ caller[1].n_samples = 2
    /\ caller[2].pc = "draw"
    /\ caller[2].n_samples = 2
    /\ caller[2].sample = 1
    /\ caller[2].starts[1] # caller[1].starts[1]
    /\ caller[2].starts[1] # caller[1].starts[2]
    /\ caller[1].batch_y[1] # caller[1].batch_y[2]

====
